---- MODULE Spec2Model ----
(***************************************************************************)
(* Model of the `node` task of hardhat-core                                *)
(* (packages/hardhat-core/src/builtin-tasks/node.ts).                      *)
(*                                                                         *)
(* One launch of TASK_NODE is modelled.  The task is an async function, so *)
(* each action is the code that runs between two suspension points: an     *)
(* action resolves (or rejects) the call the task is awaiting and runs the *)
(* task up to its next await.  Collaborators whose code is outside the     *)
(* file (the provider, the JSON-RPC server, the subtask overrides, the     *)
(* compiler-output watcher) resolve or reject nondeterministically.        *)
(*                                                                         *)
(* Optional values (`undefined` in the source) are sequences of length 0   *)
(* or 1.                                                                   *)
(***************************************************************************)
EXTENDS Naturals, Integers, Sequences, FiniteSets, TLC

\* ------------------------------------------------------------------------
\* Bounds of the model
\* ------------------------------------------------------------------------
MaxBlockNumber == 2
MaxFreePorts == 2

\* ------------------------------------------------------------------------
\* Program constants
\* ------------------------------------------------------------------------
HARDHAT_NETWORK_NAME == "hardhat"
DefaultPort == 8545
DockerHostname == "0.0.0.0"
LocalHostname == "localhost"

None == <<>>
Some(v) == <<v>>
Opt(S) == {None} \cup {Some(v) : v \in S}
IsDefined(o) == o # None
Get(o) == o[1]

\* ------------------------------------------------------------------------
\* Input domains
\* ------------------------------------------------------------------------
NetworkNames == {HARDHAT_NETWORK_NAME, "other"}
Urls == {"http://a", "http://b"}
BlockNumbers == 1..MaxBlockNumber
HostnameParams == {"myhost"}
RequestedPorts == {0, DefaultPort}
FreePorts == {DefaultPort + k : k \in 1..MaxFreePorts}
BoundAddresses == {"127.0.0.1", "0.0.0.0"}

\* config.networks.hardhat.forking: absent, or a url with an optional block
ForkingConfigs == Opt([url : Urls, blockNumber : Opt(BlockNumbers)])

\* ------------------------------------------------------------------------
\* Errors.  A thrown value is a record; `parent` is the wrapped cause.
\* ------------------------------------------------------------------------
HardhatError(name, message, parent) ==
    [isHardhatError |-> TRUE, name |-> name, message |-> message, parent |-> parent]

PlainError(message) ==
    [isHardhatError |-> FALSE, name |-> "Error", message |-> message, parent |-> None]

UnsupportedNetworkError == HardhatError("JSONRPC_UNSUPPORTED_NETWORK", "", None)
ForkBlockNumberWithoutUrlError ==
    HardhatError("NODE_FORK_BLOCK_NUMBER_WITHOUT_URL", "", None)
ServerLaunchError(error) == HardhatError("JSONRPC_SERVER_ERROR", error.message, Some(error))

\* what a collaborator (provider, server, subtask override, watcher) may throw
CollaboratorErrors ==
    {PlainError("boom"), PlainError("bang"), HardhatError("PLUGIN_ERROR", "plugin", None)}

VARIABLES
    taskArgs,       \* forkUrl, forkBlockNumber, hostname, port of TASK_NODE
    network,        \* network.name and hardhatArguments.network
    forkingConfig,  \* config.networks[HARDHAT_NETWORK_NAME].forking
    insideDocker,   \* fsExtra.existsSync("/.dockerenv")
    pc,             \* position of the task
    createdProviders, \* number of createProvider() calls
    provider,       \* the `provider` local of TASK_NODE_GET_PROVIDER / TASK_NODE
    requests,       \* provider.request() calls issued, in order
    hostname,       \* the `hostname` local of TASK_NODE
    servers,        \* JsonRpcServerImpl objects constructed, in order
    createdParams,  \* arguments TASK_NODE_SERVER_CREATED was run with
    listenResult,   \* what server.listen() resolved to
    readyParams,    \* arguments TASK_NODE_SERVER_READY was run with
    reported,       \* errors handed to Reporter.reportError
    raised,         \* the error that reached the task's error handling
    thrown,         \* the error TASK_NODE rejected with
    watched,        \* providers handed to watchCompilerOutput, in order
    closeSignal,    \* the server was closed from outside
    trace           \* calls and completions of the phases, in order

inputs == <<taskArgs, network, forkingConfig, insideDocker>>
vars == <<taskArgs, network, forkingConfig, insideDocker, pc, createdProviders,
          provider, requests, hostname, servers, createdParams, listenResult,
          readyParams, reported, raised, thrown, watched, closeSignal, trace>>

Init ==
    /\ taskArgs \in [forkUrl : Opt(Urls), forkBlockNumber : Opt(BlockNumbers),
                     hostname : Opt(HostnameParams), port : RequestedPorts]
    /\ network \in {n \in [name : NetworkNames, argument : Opt(NetworkNames)] :
                        IsDefined(n.argument) => n.name = Get(n.argument)}
    /\ forkingConfig \in ForkingConfigs
    /\ insideDocker \in BOOLEAN
    /\ pc = "Idle"
    /\ createdProviders = 0
    /\ provider = None
    /\ requests = <<>>
    /\ hostname = None
    /\ servers = <<>>
    /\ createdParams = None
    /\ listenResult = None
    /\ readyParams = None
    /\ reported = <<>>
    /\ raised = None
    /\ thrown = None
    /\ watched = <<>>
    /\ closeSignal = FALSE
    /\ trace = <<>>

\* ------------------------------------------------------------------------
\* Pure pieces of the task
\* ------------------------------------------------------------------------
\* mutant: the network name test is inverted
IsUnsupportedNetworkInverted(net) ==
    net.name = HARDHAT_NETWORK_NAME /\ IsDefined(net.argument)

\* mutant: any explicitly selected network is refused
IsUnsupportedNetworkAnyExplicit(net) ==
    IsDefined(net.argument)

\* network.name !== HARDHAT_NETWORK_NAME && hardhatArguments.network !== undefined
IsUnsupportedNetwork(net) ==
    net.name # HARDHAT_NETWORK_NAME /\ IsDefined(net.argument)

\* forkUrlParam ?? hardhatNetworkConfig.forking?.url
EffectiveForkUrl(args, forking) ==
    IF IsDefined(args.forkUrl) THEN args.forkUrl
    ELSE IF IsDefined(forking) THEN Some(Get(forking).url)
    ELSE None

\* mutant: the configured block number wins over the parameter
EffectiveForkBlockNumberConfigFirst(args, forking) ==
    IF IsDefined(forking) /\ IsDefined(Get(forking).blockNumber)
    THEN Get(forking).blockNumber
    ELSE args.forkBlockNumber

\* forkBlockNumberParam ?? hardhatNetworkConfig.forking?.blockNumber
EffectiveForkBlockNumber(args, forking) ==
    IF IsDefined(args.forkBlockNumber) THEN args.forkBlockNumber
    ELSE IF IsDefined(forking) THEN Get(forking).blockNumber
    ELSE None

\* mutant: the else-if branch that throws is missing
ForkDecisionNoThrow(forkUrl, forkBlockNumber) ==
    IF IsDefined(forkUrl) THEN "reset" ELSE "log"

\* mutant: a block number alone is enough to reset
ForkDecisionResetOnBlock(forkUrl, forkBlockNumber) ==
    IF IsDefined(forkUrl) \/ IsDefined(forkBlockNumber) THEN "reset" ELSE "log"

\* the if / else-if of TASK_NODE_GET_PROVIDER
ForkDecision(forkUrl, forkBlockNumber) ==
    IF IsDefined(forkUrl) THEN "reset"
    ELSE IF IsDefined(forkBlockNumber) THEN "throw"
    ELSE "log"

\* mutant: the docker test comes before the hostname parameter
ResolveHostnameDockerFirst(hostnameParam, docker) ==
    IF docker THEN DockerHostname
    ELSE IF IsDefined(hostnameParam) THEN Get(hostnameParam)
    ELSE LocalHostname

\* the hostname if / else of TASK_NODE
ResolveHostname(hostnameParam, docker) ==
    IF IsDefined(hostnameParam) THEN Get(hostnameParam)
    ELSE IF docker THEN DockerHostname
    ELSE LocalHostname

\* mutant: the catch block rethrows whatever it caught
CatchErrorRethrow(error) == error

\* mutant: the catch block wraps every error
CatchErrorWrapAll(error) == ServerLaunchError(error)

\* the catch block of TASK_NODE: what the task rejects with
CatchError(error) ==
    IF error.isHardhatError THEN error ELSE ServerLaunchError(error)

\* ------------------------------------------------------------------------
\* The task, one action per stretch of code between two awaits
\* ------------------------------------------------------------------------
\* what an awaited collaborator call ends with: None is success
Outcomes == Opt(CollaboratorErrors)

\* an error reaches the catch block of TASK_NODE
Fail(error, events) ==
    /\ pc' = "Failed"
    /\ raised' = Some(error)
    /\ thrown' = Some(CatchError(error))
    /\ trace' = trace \o events

\* provider.request() calls are records of one shape: `params` holds the
\* forking object of hardhat_reset and the flag of hardhat_setLoggingEnabled,
\* the fields a method does not have being None
ResetRequest(p, forkUrl, forkBlockNumber) ==
    [provider |-> p, method |-> "hardhat_reset",
     params |-> [jsonRpcUrl |-> forkUrl, blockNumber |-> forkBlockNumber,
                 enabled |-> None]]

\* mutant: logging is switched off
LoggingRequestDisabled(p) ==
    [provider |-> p, method |-> "hardhat_setLoggingEnabled",
     params |-> [jsonRpcUrl |-> None, blockNumber |-> None, enabled |-> Some(FALSE)]]

LoggingRequest(p) ==
    [provider |-> p, method |-> "hardhat_setLoggingEnabled",
     params |-> [jsonRpcUrl |-> None, blockNumber |-> None, enabled |-> Some(TRUE)]]

\* mutant: the started banner is printed by the created subtask
ServerCreatedActionBanner == <<"print:banner">>

\* what the action of TASK_NODE_SERVER_CREATED does: nothing
ServerCreatedAction == <<>>

\* what the action of TASK_NODE_SERVER_READY does first: it prints the
\* "Started HTTP and WebSocket JSON-RPC server" banner
ServerReadyAction == <<"print:banner">>

\* TASK_NODE up to `await run(TASK_NODE_GET_PROVIDER, ...)`
Validate ==
    /\ pc = "Idle"
    /\ IF IsUnsupportedNetwork(network)
       THEN /\ pc' = "Failed"
            /\ raised' = Some(UnsupportedNetworkError)
            /\ thrown' = Some(UnsupportedNetworkError)
            /\ trace' = Append(trace, "throw:validate")
       ELSE /\ pc' = "ResolvingProvider"
            /\ trace' = Append(trace, "run:GET_PROVIDER")
            /\ UNCHANGED <<raised, thrown>>
    /\ UNCHANGED <<inputs, createdProviders, provider, requests, hostname, servers,
                   createdParams, listenResult, readyParams, reported, watched,
                   closeSignal>>

\* TASK_NODE_GET_PROVIDER up to its first await (or its throw)
GetProvider ==
    /\ pc = "ResolvingProvider"
    /\ LET fresh == network.name # HARDHAT_NETWORK_NAME
           p == IF fresh THEN "createProvider" ELSE "network.provider"
           forkUrl == EffectiveForkUrl(taskArgs, forkingConfig)
           forkBlockNumber == EffectiveForkBlockNumber(taskArgs, forkingConfig)
           decision == ForkDecision(forkUrl, forkBlockNumber)
           made == IF fresh THEN <<"createProvider">> ELSE <<>>
       IN  /\ createdProviders' = IF fresh THEN createdProviders + 1 ELSE createdProviders
           /\ provider' = Some(p)
           /\ CASE decision = "reset" ->
                     /\ requests' = Append(requests, ResetRequest(p, forkUrl, forkBlockNumber))
                     /\ pc' = "AwaitReset"
                     /\ trace' = trace \o made \o <<"request:hardhat_reset">>
                     /\ UNCHANGED <<raised, thrown>>
                [] decision = "throw" ->
                     /\ Fail(ForkBlockNumberWithoutUrlError, made \o <<"throw:GET_PROVIDER">>)
                     /\ UNCHANGED requests
                [] OTHER ->
                     /\ requests' = Append(requests, LoggingRequest(p))
                     /\ pc' = "AwaitLogging"
                     /\ trace' = trace \o made \o <<"request:hardhat_setLoggingEnabled">>
                     /\ UNCHANGED <<raised, thrown>>
    /\ UNCHANGED <<inputs, hostname, servers, createdParams, listenResult, readyParams,
                   reported, watched, closeSignal>>

\* mutant: the outcome of hardhat_reset is ignored
ResetResolveSwallow(outcome) ==
    /\ pc = "AwaitReset"
    /\ requests' = Append(requests, LoggingRequest(Get(provider)))
    /\ pc' = "AwaitLogging"
    /\ trace' = trace \o <<IF IsDefined(outcome) THEN "failed:hardhat_reset"
                                                 ELSE "done:hardhat_reset",
                           "request:hardhat_setLoggingEnabled">>
    /\ UNCHANGED <<inputs, createdProviders, provider, hostname, servers, createdParams,
                   listenResult, readyParams, reported, raised, thrown, watched,
                   closeSignal>>

\* provider.request({method: "hardhat_reset"}) settles
ResetResolve(outcome) ==
    /\ pc = "AwaitReset"
    /\ IF IsDefined(outcome)
       THEN /\ Fail(Get(outcome), <<"failed:hardhat_reset">>)
            /\ UNCHANGED requests
       ELSE /\ requests' = Append(requests, LoggingRequest(Get(provider)))
            /\ pc' = "AwaitLogging"
            /\ trace' = trace \o <<"done:hardhat_reset", "request:hardhat_setLoggingEnabled">>
            /\ UNCHANGED <<raised, thrown>>
    /\ UNCHANGED <<inputs, createdProviders, provider, hostname, servers, createdParams,
                   listenResult, readyParams, reported, watched, closeSignal>>

\* provider.request({method: "hardhat_setLoggingEnabled"}) settles; the subtask
\* returns, TASK_NODE picks the hostname and runs TASK_NODE_CREATE_SERVER
LoggingResolve(outcome) ==
    /\ pc = "AwaitLogging"
    /\ IF IsDefined(outcome)
       THEN /\ Fail(Get(outcome), <<"failed:hardhat_setLoggingEnabled">>)
            /\ UNCHANGED hostname
       ELSE /\ hostname' = Some(ResolveHostname(taskArgs.hostname, insideDocker))
            /\ pc' = "CreatingServer"
            /\ trace' = trace \o <<"done:hardhat_setLoggingEnabled", "done:GET_PROVIDER",
                                   "run:CREATE_SERVER">>
            /\ UNCHANGED <<raised, thrown>>
    /\ UNCHANGED <<inputs, createdProviders, provider, requests, servers, createdParams,
                   listenResult, readyParams, reported, watched, closeSignal>>

\* mutant: the server is bound to the ambient network's provider
NewServerAmbientProvider(h, port, p) ==
    [hostname |-> h, port |-> port, provider |-> "network.provider"]

\* new JsonRpcServerImpl({hostname, port, provider})
NewServer(h, port, p) == [hostname |-> h, port |-> port, provider |-> p]

\* mutant: the created hook gets the ambient network's provider
ServerCreatedParamsAmbientProvider(h, port, p, server) ==
    [hostname |-> h, port |-> port, provider |-> "network.provider", server |-> server]

\* the parameters TASK_NODE runs TASK_NODE_SERVER_CREATED with
ServerCreatedParams(h, port, p, server) ==
    [hostname |-> h, port |-> port, provider |-> p, server |-> server]

\* mutant: the ready hook gets the requested port and the hostname
ServerReadyParamsRequested(listened, h, port, p, server) ==
    [address |-> h, port |-> port, provider |-> p, server |-> server]

\* the parameters TASK_NODE runs TASK_NODE_SERVER_READY with
ServerReadyParams(listened, h, port, p, server) ==
    [address |-> listened.address, port |-> listened.port, provider |-> p,
     server |-> server]

\* what server.listen() may resolve to for a server configured with `port`
ListenResults(port) ==
    [address : BoundAddresses, port : IF port = 0 THEN FreePorts ELSE {port}]

\* TASK_NODE_CREATE_SERVER settles; TASK_NODE runs TASK_NODE_SERVER_CREATED.
\* Servers are named by their position in `servers`.
CreateServerResolve(outcome) ==
    /\ pc = "CreatingServer"
    /\ IF IsDefined(outcome)
       THEN /\ Fail(Get(outcome), <<"failed:CREATE_SERVER">>)
            /\ UNCHANGED <<servers, createdParams>>
       ELSE /\ servers' = Append(servers,
                                 NewServer(Get(hostname), taskArgs.port, Get(provider)))
            /\ createdParams' = Some(ServerCreatedParams(Get(hostname), taskArgs.port,
                                                         Get(provider), Len(servers) + 1))
            /\ pc' = "PreListenHook"
            /\ trace' = trace \o <<"done:CREATE_SERVER", "run:SERVER_CREATED">>
            /\ UNCHANGED <<raised, thrown>>
    /\ UNCHANGED <<inputs, createdProviders, provider, requests, hostname, listenResult,
                   readyParams, reported, watched, closeSignal>>

\* mutant: a rejection of TASK_NODE_SERVER_CREATED is swallowed
ServerCreatedResolveSwallow(outcome) ==
    /\ pc = "PreListenHook"
    /\ pc' = "Listening"
    /\ trace' = trace \o <<IF IsDefined(outcome) THEN "failed:SERVER_CREATED"
                                                 ELSE "done:SERVER_CREATED",
                           "call:listen">>
    /\ UNCHANGED <<inputs, createdProviders, provider, requests, hostname, servers,
                   createdParams, listenResult, readyParams, reported, raised, thrown,
                   watched, closeSignal>>

\* TASK_NODE_SERVER_CREATED settles; TASK_NODE calls server.listen()
ServerCreatedResolve(outcome) ==
    /\ pc = "PreListenHook"
    /\ IF IsDefined(outcome)
       THEN Fail(Get(outcome), ServerCreatedAction \o <<"failed:SERVER_CREATED">>)
       ELSE /\ pc' = "Listening"
            /\ trace' = trace \o ServerCreatedAction
                               \o <<"done:SERVER_CREATED", "call:listen">>
            /\ UNCHANGED <<raised, thrown>>
    /\ UNCHANGED <<inputs, createdProviders, provider, requests, hostname, servers,
                   createdParams, listenResult, readyParams, reported, watched,
                   closeSignal>>

\* mutant: watchCompilerOutput is not called, the ready subtask is run at once
ListenResolveSkipWatch(listened) ==
    /\ pc = "Listening"
    /\ listened \in ListenResults(servers[Len(servers)].port)
    /\ listenResult' = Some(listened)
    /\ readyParams' = Some(ServerReadyParams(listened, Get(hostname), taskArgs.port,
                                             Get(provider), Len(servers)))
    /\ pc' = "PostListenHook"
    /\ trace' = trace \o <<"done:listen", "run:SERVER_READY">>
    /\ UNCHANGED <<inputs, createdProviders, provider, requests, hostname, servers,
                   createdParams, reported, raised, thrown, watched, closeSignal>>

\* server.listen() resolves; TASK_NODE calls watchCompilerOutput
ListenResolve(listened) ==
    /\ pc = "Listening"
    /\ listened \in ListenResults(servers[Len(servers)].port)
    /\ listenResult' = Some(listened)
    /\ watched' = Append(watched, Get(provider))
    /\ pc' = "WatchingArtifacts"
    /\ trace' = trace \o <<"done:listen", "call:watchCompilerOutput">>
    /\ UNCHANGED <<inputs, createdProviders, provider, requests, hostname, servers,
                   createdParams, readyParams, reported, raised, thrown, closeSignal>>

\* server.listen() rejects
ListenReject(error) ==
    /\ pc = "Listening"
    /\ Fail(error, <<"failed:listen">>)
    /\ UNCHANGED <<inputs, createdProviders, provider, requests, hostname, servers,
                   createdParams, listenResult, readyParams, reported, watched,
                   closeSignal>>

\* mutant: the inner try/catch reports the rejection and rethrows it
WatchResolveRethrow(outcome) ==
    /\ pc = "WatchingArtifacts"
    /\ IF IsDefined(outcome)
       THEN /\ reported' = Append(reported, Get(outcome))
            /\ Fail(Get(outcome), <<"caught:watchCompilerOutput">>)
            /\ UNCHANGED readyParams
       ELSE /\ readyParams' = Some(ServerReadyParams(Get(listenResult), Get(hostname),
                                        taskArgs.port, Get(provider), Len(servers)))
            /\ pc' = "PostListenHook"
            /\ trace' = trace \o <<"done:watchCompilerOutput", "run:SERVER_READY">>
            /\ UNCHANGED <<reported, raised, thrown>>
    /\ UNCHANGED <<inputs, createdProviders, provider, requests, hostname, servers,
                   createdParams, listenResult, watched, closeSignal>>

\* watchCompilerOutput settles (its rejection is caught, warned about and
\* reported); TASK_NODE runs TASK_NODE_SERVER_READY
WatchResolve(outcome) ==
    /\ pc = "WatchingArtifacts"
    /\ reported' = IF IsDefined(outcome) THEN Append(reported, Get(outcome)) ELSE reported
    /\ readyParams' = Some(ServerReadyParams(Get(listenResult), Get(hostname),
                                             taskArgs.port, Get(provider), Len(servers)))
    /\ pc' = "PostListenHook"
    /\ trace' = trace \o <<IF IsDefined(outcome) THEN "caught:watchCompilerOutput"
                                                 ELSE "done:watchCompilerOutput",
                           "run:SERVER_READY">>
    /\ UNCHANGED <<inputs, createdProviders, provider, requests, hostname, servers,
                   createdParams, listenResult, raised, thrown, watched, closeSignal>>

\* mutant: a rejection of TASK_NODE_SERVER_READY is swallowed
ServerReadyResolveSwallow(outcome) ==
    /\ pc = "PostListenHook"
    /\ pc' = "Serving"
    /\ trace' = trace \o ServerReadyAction
                       \o <<IF IsDefined(outcome) THEN "failed:SERVER_READY"
                                                  ELSE "done:SERVER_READY",
                            "call:waitUntilClosed">>
    /\ UNCHANGED <<inputs, createdProviders, provider, requests, hostname, servers,
                   createdParams, listenResult, readyParams, reported, raised, thrown,
                   watched, closeSignal>>

\* TASK_NODE_SERVER_READY settles; TASK_NODE calls server.waitUntilClosed()
ServerReadyResolve(outcome) ==
    /\ pc = "PostListenHook"
    /\ IF IsDefined(outcome)
       THEN Fail(Get(outcome), ServerReadyAction \o <<"failed:SERVER_READY">>)
       ELSE /\ pc' = "Serving"
            /\ trace' = trace \o ServerReadyAction
                               \o <<"done:SERVER_READY", "call:waitUntilClosed">>
            /\ UNCHANGED <<raised, thrown>>
    /\ UNCHANGED <<inputs, createdProviders, provider, requests, hostname, servers,
                   createdParams, listenResult, readyParams, reported, watched,
                   closeSignal>>

\* the server is closed from outside while the task waits
Close ==
    /\ pc = "Serving"
    /\ ~closeSignal
    /\ closeSignal' = TRUE
    /\ UNCHANGED <<inputs, pc, createdProviders, provider, requests, hostname, servers,
                   createdParams, listenResult, readyParams, reported, raised, thrown,
                   watched, trace>>

\* mutant: waitUntilClosed() resolves without waiting for the close
WaitUntilClosedResolveEarly ==
    /\ pc = "Serving"
    /\ pc' = "Closed"
    /\ trace' = Append(trace, "done:waitUntilClosed")
    /\ UNCHANGED <<inputs, createdProviders, provider, requests, hostname, servers,
                   createdParams, listenResult, readyParams, reported, raised, thrown,
                   watched, closeSignal>>

\* server.waitUntilClosed() resolves; TASK_NODE returns
WaitUntilClosedResolve ==
    /\ pc = "Serving"
    /\ closeSignal
    /\ pc' = "Closed"
    /\ trace' = Append(trace, "done:waitUntilClosed")
    /\ UNCHANGED <<inputs, createdProviders, provider, requests, hostname, servers,
                   createdParams, listenResult, readyParams, reported, raised, thrown,
                   watched, closeSignal>>

\* mutant: waitUntilClosed() is awaited outside the try block
WaitUntilClosedRejectOutsideTry(error) ==
    /\ pc = "Serving"
    /\ pc' = "Failed"
    /\ raised' = Some(error)
    /\ thrown' = Some(error)
    /\ trace' = Append(trace, "failed:waitUntilClosed")
    /\ UNCHANGED <<inputs, createdProviders, provider, requests, hostname, servers,
                   createdParams, listenResult, readyParams, reported, watched,
                   closeSignal>>

\* server.waitUntilClosed() rejects
WaitUntilClosedReject(error) ==
    /\ pc = "Serving"
    /\ Fail(error, <<"failed:waitUntilClosed">>)
    /\ UNCHANGED <<inputs, createdProviders, provider, requests, hostname, servers,
                   createdParams, listenResult, readyParams, reported, watched,
                   closeSignal>>

Next ==
    \/ Validate
    \/ GetProvider
    \/ \E o \in Outcomes : ResetResolve(o)
    \/ \E o \in Outcomes : LoggingResolve(o)
    \/ \E o \in Outcomes : CreateServerResolve(o)
    \/ \E o \in Outcomes : ServerCreatedResolve(o)
    \/ \E l \in [address : BoundAddresses, port : RequestedPorts \cup FreePorts] :
          ListenResolve(l)
    \/ \E e \in CollaboratorErrors : ListenReject(e)
    \/ \E o \in Outcomes : WatchResolve(o)
    \/ \E o \in Outcomes : ServerReadyResolve(o)
    \/ Close
    \/ WaitUntilClosedResolve
    \/ \E e \in CollaboratorErrors : WaitUntilClosedReject(e)

Spec == Init /\ [][Next]_vars

\* once the server is closed the promise of waitUntilClosed() is settled and
\* the event loop resumes the task
FairSpec == Spec /\ WF_vars(WaitUntilClosedResolve)

\* ------------------------------------------------------------------------
\* Properties
\* ------------------------------------------------------------------------
Happened(event) == \E i \in DOMAIN trace : trace[i] = event
Last == IF trace = <<>> THEN "" ELSE trace[Len(trace)]
\* every occurrence of `later` has an occurrence of `earlier` before it
Precedes(earlier, later) ==
    \A i \in DOMAIN trace :
        trace[i] = later => \E j \in 1..(i - 1) : trace[j] = earlier

LocalNetwork == network.name = HARDHAT_NETWORK_NAME
ExplicitNetwork == network.argument # None
\* the fork url is absent from the override and from the configuration
NoForkUrl == taskArgs.forkUrl = None /\ forkingConfig = None
\* a fork block number is set (by the override, or by the configuration)
SomeForkBlockNumber ==
    \/ taskArgs.forkBlockNumber # None
    \/ (forkingConfig # None /\ forkingConfig[1].blockNumber # None)
BlockNumberWithoutUrl == SomeForkBlockNumber /\ NoForkUrl
ConfigurationErrorThrown ==
    /\ pc = "Failed"
    /\ thrown = <<[isHardhatError |-> TRUE, name |-> "NODE_FORK_BLOCK_NUMBER_WITHOUT_URL",
                   message |-> "", parent |-> <<>>]>>

\* C1 (as stated): a launch with a fork block number and no fork url, on the
\* local network or on a non-local one that was not selected explicitly, gets
\* past provider resolution only by failing with the block-number-without-url
\* error, and no provider object and no server object is ever created.
C1_Original ==
    (BlockNumberWithoutUrl /\ ~(~LocalNetwork /\ ExplicitNetwork)) =>
        /\ pc \in {"Idle", "ResolvingProvider"} \/ ConfigurationErrorThrown
        /\ createdProviders = 0
        /\ servers = <<>>

\* C1 (amended): such a launch gets past provider resolution only by failing
\* with the block-number-without-url error; no server object is created and no
\* provider request is issued; on the local network no provider object is
\* created, on a non-local network exactly one provider has been created by
\* the time the error is thrown.
C1_Amended ==
    (BlockNumberWithoutUrl /\ ~(~LocalNetwork /\ ExplicitNetwork)) =>
        /\ pc \in {"Idle", "ResolvingProvider"} \/ ConfigurationErrorThrown
        /\ servers = <<>>
        /\ requests = <<>>
        /\ createdProviders = IF ~LocalNetwork /\ pc = "Failed" THEN 1 ELSE 0

C1_Witness ==
    /\ BlockNumberWithoutUrl
    /\ ~LocalNetwork
    /\ ~ExplicitNetwork
    /\ ConfigurationErrorThrown
    /\ createdProviders = 1

\* C2: when the effective forking intent has a block number and no url, the
\* server factory is never invoked, neither hook is run, listen() is never
\* called and no provider request (reset or logging) is issued.
C2_RejectedBeforeServer ==
    BlockNumberWithoutUrl =>
        /\ servers = <<>>
        /\ ~Happened("run:CREATE_SERVER")
        /\ createdParams = <<>> /\ ~Happened("run:SERVER_CREATED")
        /\ readyParams = <<>> /\ ~Happened("run:SERVER_READY")
        /\ listenResult = <<>> /\ ~Happened("call:listen")
        /\ requests = <<>>
        /\ pc \in {"Idle", "ResolvingProvider", "Failed"}

C2_Witness ==
    /\ BlockNumberWithoutUrl
    /\ LocalNetwork
    /\ ConfigurationErrorThrown
    /\ Last = "throw:GET_PROVIDER"

\* C3: a launch on a non-local network that was selected explicitly fails
\* with the unsupported-network error before provider resolution begins: no
\* provider is created or picked, no provider request is issued, no later
\* phase runs.
C3_UnsupportedBeforeProvider ==
    (~LocalNetwork /\ ExplicitNetwork) =>
        /\ pc \in {"Idle", "Failed"}
        /\ pc = "Failed" =>
              /\ thrown = <<[isHardhatError |-> TRUE, name |-> "JSONRPC_UNSUPPORTED_NETWORK",
                             message |-> "", parent |-> <<>>]>>
              /\ trace = <<"throw:validate">>
        /\ createdProviders = 0
        /\ provider = <<>>
        /\ requests = <<>>
        /\ servers = <<>>
        /\ watched = <<>>

C3_Witness ==
    /\ ~LocalNetwork
    /\ ExplicitNetwork
    /\ pc = "Failed"
    /\ thrown # <<>> /\ thrown[1].name = "JSONRPC_UNSUPPORTED_NETWORK"

\* C4: on the local network the unsupported-network error is never thrown,
\* explicit selection or not; validation rejects a launch only when the
\* network is non-local and explicitly selected.
C4_LocalNeverUnsupported ==
    /\ LocalNetwork =>
          /\ ~Happened("throw:validate")
          /\ thrown # <<>> => thrown[1].name # "JSONRPC_UNSUPPORTED_NETWORK"
    /\ Happened("throw:validate") => (~LocalNetwork /\ ExplicitNetwork)

C4_Witness ==
    /\ LocalNetwork
    /\ ExplicitNetwork
    /\ pc = "Serving"

\* C5: the created hook is run and has completed before listen() is called,
\* the ready hook is run only after listen() has resolved; listen() is not
\* called when the created hook failed, the ready hook is not run when
\* listen() failed.
C5_HookOrder ==
    /\ Precedes("run:SERVER_CREATED", "done:SERVER_CREATED")
    /\ Precedes("done:SERVER_CREATED", "call:listen")
    /\ Precedes("call:listen", "done:listen")
    /\ Precedes("done:listen", "run:SERVER_READY")
    /\ Happened("failed:SERVER_CREATED") => ~Happened("call:listen")
    /\ Happened("failed:listen") => ~Happened("run:SERVER_READY")

C5_Witness ==
    /\ Happened("call:listen")
    /\ Happened("done:SERVER_READY")

\* C6: the ready hook is run with the address and port server.listen()
\* resolved to, the created hook with the requested port and the resolved
\* hostname.
C6_HookParams ==
    /\ readyParams # <<>> =>
          /\ listenResult # <<>>
          /\ readyParams[1].address = listenResult[1].address
          /\ readyParams[1].port = listenResult[1].port
    /\ createdParams # <<>> =>
          /\ createdParams[1].port = taskArgs.port
          /\ createdParams[1].hostname = hostname[1]

C6_Witness ==
    /\ readyParams # <<>>
    /\ taskArgs.port = 0
    /\ readyParams[1].port # taskArgs.port
    /\ readyParams[1].address # hostname[1]
    /\ createdParams[1].port = 0

\* C7: once watchCompilerOutput has been called and has settled, the ready
\* hook has been run, whether the watcher failed or not; after a watcher
\* failure the launch goes on to Serving and fails only if a later phase does.
C7_WatcherNeverFatal ==
    /\ (Happened("call:watchCompilerOutput") /\ pc # "WatchingArtifacts") =>
          (Happened("run:SERVER_READY") /\ readyParams # <<>>)
    /\ Happened("caught:watchCompilerOutput") =>
          /\ pc \in {"PostListenHook", "Serving", "Closed", "Failed"}
          /\ pc = "Failed" => Last \in {"failed:SERVER_READY", "failed:waitUntilClosed"}

C7_Witness ==
    /\ Happened("caught:watchCompilerOutput")
    /\ reported # <<>>
    /\ pc = "Serving"

PreServingFailures ==
    {"failed:hardhat_reset", "failed:hardhat_setLoggingEnabled", "failed:CREATE_SERVER",
     "failed:SERVER_CREATED", "failed:listen", "failed:SERVER_READY"}

\* C8: an error of a phase before Serving that is not a HardhatError is
\* rethrown wrapped in the server-launch error, which carries its message and
\* has it as its cause.
C8_WrappedInServerLaunchError ==
    (pc = "Failed" /\ Last \in PreServingFailures /\ ~raised[1].isHardhatError) =>
        /\ thrown # raised
        /\ thrown[1].isHardhatError
        /\ thrown[1].name = "JSONRPC_SERVER_ERROR"
        /\ thrown[1].message = raised[1].message
        /\ thrown[1].parent = raised

C8_Witness ==
    /\ pc = "Failed"
    /\ Last = "failed:listen"
    /\ ~raised[1].isHardhatError
    /\ thrown[1].name = "JSONRPC_SERVER_ERROR"

\* C9: a HardhatError raised by validation, by a phase or by a hook is what
\* the task rejects with, unchanged.
C9_DomainErrorsUnchanged ==
    (pc = "Failed" /\ raised[1].isHardhatError) => thrown = raised

C9_Witness ==
    /\ pc = "Failed"
    /\ Last = "failed:SERVER_CREATED"
    /\ raised[1].name = "PLUGIN_ERROR"
    /\ thrown = raised

BannerPrinted == Happened("print:banner")

\* C11 (as stated): no launch prints the started banner and ends Failed.
C11_Original ==
    pc = "Failed" => ~BannerPrinted

\* C11 (amended): the banner is printed only after listen() has resolved, so
\* a launch that fails in validation, provider resolution, server creation,
\* the created hook or listen() has printed no banner; only a launch that
\* fails in the ready subtask or in waitUntilClosed() can end Failed after
\* the banner.
C11_Amended ==
    /\ Precedes("done:listen", "print:banner")
    /\ Precedes("run:SERVER_READY", "print:banner")
    /\ (pc = "Failed" /\ Last \notin {"failed:SERVER_READY", "failed:waitUntilClosed"}) =>
          ~BannerPrinted

C11_Witness ==
    /\ pc = "Failed"
    /\ Last = "failed:listen"
    /\ thrown # <<>> /\ thrown[1].name = "JSONRPC_SERVER_ERROR"
    /\ ~BannerPrinted

\* the starts and completions of the phases of a launch, in the order of the
\* task's code
PhaseOrder ==
    <<"run:GET_PROVIDER", "done:GET_PROVIDER", "run:CREATE_SERVER", "done:CREATE_SERVER",
      "run:SERVER_CREATED", "done:SERVER_CREATED", "call:listen", "done:listen",
      "call:watchCompilerOutput", "done:watchCompilerOutput", "run:SERVER_READY",
      "done:SERVER_READY", "call:waitUntilClosed", "done:waitUntilClosed">>
\* the phase events of the trace, an absorbed watcher failure counting as the
\* watcher's completion
PhaseEvents ==
    LET Norm(e) == IF e = "caught:watchCompilerOutput" THEN "done:watchCompilerOutput"
                   ELSE e
        normal == [i \in DOMAIN trace |-> Norm(trace[i])]
        IsPhase(e) == \E k \in DOMAIN PhaseOrder : PhaseOrder[k] = e
    IN  SelectSeq(normal, IsPhase)
IsPrefix(a, b) == Len(a) <= Len(b) /\ \A i \in DOMAIN a : a[i] = b[i]

\* C12: the phases start and complete in the order resolve provider, create
\* server, created hook, listen, watch, ready hook, waitUntilClosed, each one
\* starting after the one before has completed, none twice; a launch that
\* serves has run them all.  A launch on the local network with port 8545
\* and no fork url issues the logging request only and has one server on the
\* default hostname and port 8545.
C12_PhasesInOrder ==
    /\ IsPrefix(PhaseEvents, PhaseOrder)
    /\ pc = "Serving" => Len(PhaseEvents) = Len(PhaseOrder) - 1
    /\ pc = "Closed" => PhaseEvents = PhaseOrder
    /\ (/\ pc = "Serving"
        /\ LocalNetwork
        /\ taskArgs.port = 8545
        /\ taskArgs.forkUrl = <<>> /\ taskArgs.forkBlockNumber = <<>>
        /\ forkingConfig = <<>>) =>
          /\ Len(requests) = 1
          /\ requests[1].method = "hardhat_setLoggingEnabled"
          /\ requests[1].params.enabled = <<TRUE>>
          /\ requests[1].provider = "network.provider"
          /\ Len(servers) = 1
          /\ servers[1].port = 8545
          /\ servers[1].hostname =
                IF taskArgs.hostname # <<>> THEN taskArgs.hostname[1]
                ELSE IF insideDocker THEN "0.0.0.0" ELSE "localhost"
          /\ ~Happened("request:hardhat_reset")

C12_Witness ==
    /\ pc = "Serving"
    /\ ~closeSignal
    /\ LocalNetwork
    /\ taskArgs.port = 8545
    /\ taskArgs.forkUrl = <<>> /\ taskArgs.forkBlockNumber = <<>> /\ forkingConfig = <<>>
    /\ taskArgs.hostname = <<>>
    /\ Len(requests) = 1
    /\ Len(PhaseEvents) = Len(PhaseOrder) - 1

\* C13: the task returns (Closed) only from Serving, only after the server
\* was closed from outside, and with no error; while it serves and the server
\* is not closed it does not return; and once the server is closed the launch
\* reaches Closed unless waitUntilClosed() rejects.
C13_ServingUntilClosed ==
    /\ [](pc = "Closed" =>
            (closeSignal /\ thrown = <<>> /\ raised = <<>> /\ Last = "done:waitUntilClosed"))
    /\ [][(pc = "Serving" /\ ~closeSignal) => pc' \in {"Serving", "Failed"}]_vars
    /\ [][pc' = "Closed" => pc \in {"Serving", "Closed"}]_vars
    /\ ((pc = "Serving" /\ closeSignal) ~>
            (pc = "Closed" \/ Last = "failed:waitUntilClosed"))

C13_Witness ==
    /\ pc = "Closed"
    /\ closeSignal
    /\ thrown = <<>>
    /\ Last = "done:waitUntilClosed"

\* C14: a launch has at most one provider created, one server constructed and
\* one watcher call; a launch that serves got one provider from the resolver
\* and one server from the factory, and both hooks, the server and the
\* watcher were given that provider and that server.
C14_OneProviderOneServer ==
    /\ createdProviders <= 1
    /\ Len(servers) <= 1
    /\ Len(watched) <= 1
    /\ Cardinality({i \in DOMAIN trace : trace[i] = "done:GET_PROVIDER"}) <= 1
    /\ createdParams # <<>> =>
          /\ createdParams[1].server = 1 /\ Len(servers) = 1
          /\ createdParams[1].provider = provider[1]
    /\ readyParams # <<>> =>
          /\ readyParams[1].server = 1 /\ Len(servers) = 1
          /\ readyParams[1].provider = provider[1]
          /\ createdParams # <<>>
          /\ readyParams[1].provider = createdParams[1].provider
    /\ pc \in {"Serving", "Closed"} =>
          /\ Len(servers) = 1
          /\ servers[1].provider = provider[1]
          /\ watched = <<provider[1]>>
          /\ createdParams # <<>> /\ readyParams # <<>>

C14_Witness ==
    /\ pc = "Serving"
    /\ ~LocalNetwork
    /\ createdProviders = 1
    /\ Len(servers) = 1
    /\ createdParams[1].provider = "createProvider"
    /\ readyParams[1].provider = "createProvider"

\* the merge of the parameters with the configuration, written out
ExpectedForkUrl ==
    IF taskArgs.forkUrl # <<>> THEN taskArgs.forkUrl
    ELSE IF forkingConfig # <<>> THEN <<forkingConfig[1].url>>
    ELSE <<>>
ExpectedForkBlockNumber ==
    IF taskArgs.forkBlockNumber # <<>> THEN taskArgs.forkBlockNumber
    ELSE IF forkingConfig # <<>> THEN forkingConfig[1].blockNumber
    ELSE <<>>
Methods == [i \in DOMAIN requests |-> requests[i].method]

\* C15: every hardhat_reset request carries the parameter's url when there is
\* one and else the configured url, and the parameter's block number when
\* there is one and else the configured one (none meaning latest); it is
\* issued whenever that url exists.
C15_EffectiveForking ==
    /\ \A i \in DOMAIN requests :
          requests[i].method = "hardhat_reset" =>
              /\ requests[i].params.jsonRpcUrl = ExpectedForkUrl
              /\ requests[i].params.jsonRpcUrl # <<>>
              /\ requests[i].params.blockNumber = ExpectedForkBlockNumber
    /\ (provider # <<>> /\ ExpectedForkUrl # <<>>) =>
          (requests # <<>> /\ requests[1].method = "hardhat_reset")

C15_Witness ==
    /\ taskArgs.forkUrl = <<>>
    /\ taskArgs.forkBlockNumber = <<1>>
    /\ forkingConfig = <<[url |-> "http://a", blockNumber |-> <<2>>]>>
    /\ requests # <<>>
    /\ requests[1].method = "hardhat_reset"
    /\ requests[1].params.jsonRpcUrl = <<"http://a">>
    /\ requests[1].params.blockNumber = <<1>>

\* C16: a provider resolution that returns has issued hardhat_reset then
\* hardhat_setLoggingEnabled(true) when there is a fork url, and
\* hardhat_setLoggingEnabled(true) alone when there is none; no resolution
\* issues anything else.
C16_ConfigurationCalls ==
    LET expected == IF ExpectedForkUrl # <<>>
                    THEN <<"hardhat_reset", "hardhat_setLoggingEnabled">>
                    ELSE <<"hardhat_setLoggingEnabled">>
    IN  /\ IsPrefix(Methods, expected)
        /\ Happened("done:GET_PROVIDER") => Methods = expected
        /\ \A i \in DOMAIN requests :
              requests[i].method = "hardhat_setLoggingEnabled" =>
                  requests[i].params.enabled = <<TRUE>>

C16_Witness ==
    /\ Happened("done:GET_PROVIDER")
    /\ ExpectedForkUrl # <<>>
    /\ Len(requests) = 2
    /\ requests[2].method = "hardhat_setLoggingEnabled"

\* C17: hardhat_reset has completed before hardhat_setLoggingEnabled is
\* requested and before the server is created or listens; when it fails the
\* launch fails at once: no logging request, no server, no second reset.
C17_ResetAwaited ==
    /\ Happened("request:hardhat_reset") =>
          /\ Precedes("done:hardhat_reset", "request:hardhat_setLoggingEnabled")
          /\ Precedes("done:hardhat_reset", "run:CREATE_SERVER")
          /\ Precedes("done:hardhat_reset", "call:listen")
    /\ Cardinality({i \in DOMAIN requests : requests[i].method = "hardhat_reset"}) <= 1
    /\ Happened("failed:hardhat_reset") =>
          /\ pc = "Failed" /\ thrown # <<>>
          /\ Last = "failed:hardhat_reset"
          /\ Methods = <<"hardhat_reset">>
          /\ servers = <<>>
          /\ ~Happened("run:CREATE_SERVER")

C17_Witness ==
    /\ Happened("failed:hardhat_reset")
    /\ pc = "Failed"
    /\ Len(requests) = 1

\* C18: a provider is created exactly when the provider is resolved on a
\* non-local network; the requests, the server, both hooks and the watcher
\* then use the created provider and none the ambient one; on the local
\* network they use the ambient network's provider.
C18_WhichProvider ==
    LET used == IF LocalNetwork THEN "network.provider" ELSE "createProvider"
    IN  /\ createdProviders = IF ~LocalNetwork /\ provider # <<>> THEN 1 ELSE 0
        /\ Happened("createProvider") <=> createdProviders = 1
        /\ provider # <<>> => provider[1] = used
        /\ \A i \in DOMAIN requests : requests[i].provider = used
        /\ \A i \in DOMAIN servers : servers[i].provider = used
        /\ \A i \in DOMAIN watched : watched[i] = used
        /\ createdParams # <<>> => createdParams[1].provider = used
        /\ readyParams # <<>> => readyParams[1].provider = used

C18_Witness ==
    /\ ~LocalNetwork
    /\ ~ExplicitNetwork
    /\ pc = "Serving"
    /\ Len(requests) = 2
    /\ servers[1].provider = "createProvider"
    /\ watched = <<"createProvider">>

FatalEvents ==
    {"throw:validate", "throw:GET_PROVIDER", "failed:hardhat_reset",
     "failed:hardhat_setLoggingEnabled", "failed:CREATE_SERVER", "failed:SERVER_CREATED",
     "failed:listen", "failed:SERVER_READY"}

\* C19: a failure of validation, provider resolution, server creation, the
\* created hook, listen() or the ready hook is the last thing the launch does:
\* it is Failed with a thrown error and nothing runs after it; after a failed
\* listen() the watcher was not started and the ready hook not run; a watcher
\* failure alone leaves no error.
C19_OnlyWatcherAbsorbed ==
    /\ \A i \in DOMAIN trace :
          trace[i] \in FatalEvents =>
              (i = Len(trace) /\ pc = "Failed" /\ thrown # <<>> /\ raised # <<>>)
    /\ Happened("failed:listen") =>
          /\ watched = <<>> /\ ~Happened("call:watchCompilerOutput")
          /\ readyParams = <<>> /\ ~Happened("run:SERVER_READY")
    /\ pc # "Failed" => (thrown = <<>> /\ raised = <<>>)

C19_Witness ==
    /\ Last = "failed:SERVER_READY"
    /\ pc = "Failed"
    /\ Happened("caught:watchCompilerOutput")
    /\ thrown # <<>>

\* C20: when waitUntilClosed() rejects, the task rejects: with the error
\* itself when it is a HardhatError, else with the server-launch error that
\* carries its message and has it as its cause; the launch is not Closed.
C20_WaitUntilClosedRejection ==
    Happened("failed:waitUntilClosed") =>
        /\ pc = "Failed"
        /\ Last = "failed:waitUntilClosed"
        /\ Happened("done:SERVER_READY")
        /\ raised # <<>>
        /\ thrown = IF raised[1].isHardhatError THEN raised
                    ELSE <<[isHardhatError |-> TRUE, name |-> "JSONRPC_SERVER_ERROR",
                            message |-> raised[1].message, parent |-> raised]>>

C20_Witness ==
    /\ Last = "failed:waitUntilClosed"
    /\ pc = "Failed"
    /\ ~raised[1].isHardhatError
    /\ thrown[1].name = "JSONRPC_SERVER_ERROR"
    /\ thrown[1].parent = raised

====
